---- MODULE Spec2Model ----
(***************************************************************************)
(* Model of the time tracker of gemini-browser-extension.                  *)
(*                                                                         *)
(*   src/src/background/main.ts  the session tracker: the event handlers   *)
(*                               of tabs.onActivated, tabs.onUpdated,      *)
(*                               windows.onFocusChanged, tabs.onRemoved    *)
(*                               and runtime.onSuspend                     *)
(*   src/src/db/database.ts      the visit store and getTodayStats         *)
(*                                                                         *)
(* The handlers are async functions.  A handler runs without interruption  *)
(* up to an await of real asynchronous work: the store write of addVisit   *)
(* (IndexedDB) or the lookup chrome.tabs.get.  An await of a promise that  *)
(* is already settled resumes in the same task (a microtask), before the   *)
(* host can deliver another event, so it is no interleaving point.  Each   *)
(* action below is therefore one task: an event's delivery up to the       *)
(* handler's first real await, or the resumption of a suspended handler up *)
(* to its next real await or its end.                                      *)
(*                                                                         *)
(* Strings are sequences of one-character strings, so that prefix tests    *)
(* and String.prototype.replace are computed, not assumed.                 *)
(***************************************************************************)
EXTENDS Integers, Sequences, FiniteSets, TLC

VARIABLES
    tabStates,      \* main.ts:9   Record<number, TabState>: a function on the keys present
    activeTabId,    \* main.ts:10  number | null
    isActive,       \* main.ts:11  the window-focus flag
    visits,         \* database.ts:13 the visits table, in insertion order (id = index)
    now,            \* Date.now(), in milliseconds
    procs,          \* the suspended handlers, in the order their events arrived
    lastActivated,  \* the host: the tab of the last tab-activated event
    removedTabs,    \* the host: the tabs that were closed (tab ids are never reused)
    arg,            \* the argument of the function called (SpecDomain)
    ret             \* what the function called returned (SpecDomain, SpecStats)

vars == <<tabStates, activeTabId, isActive, visits, now, procs, lastActivated, removedTabs,
          arg, ret>>

\* what the tracker's handlers leave alone
hostVars == <<lastActivated, removedTabs, arg, ret>>

-----------------------------------------------------------------------------
(* Bounds *)

\* tabs the host reports events for in Spec
NumTabs == 2
\* tabs of the activation-only specification SpecActivate
NumActTabs == 3
\* handlers that may be suspended at the same time
MaxInFlight == 2
\* the clock advances in steps of TickMs, MaxTicks times at most
TickMs == 1000
MaxTicks == 2

(* Program constants *)

\* main.ts:10  activeTabId's null
Null == 0
\* main.ts:28  if (duration > 1000)
MinDuration == 1000
\* main.ts:89  chrome.windows.WINDOW_ID_NONE
WINDOW_ID_NONE == -1

Tabs == 1..NumTabs
ActTabs == 1..NumActTabs
WindowIds == {WINDOW_ID_NONE, 1}
MaxTime == MaxTicks * TickMs

-----------------------------------------------------------------------------
(* Strings *)

StartsWith(s, p) == Len(s) >= Len(p) /\ SubSeq(s, 1, Len(p)) = p

\* the positions at which pat occurs in s
Occurrences(s, pat) ==
    {i \in 1..(Len(s) - Len(pat) + 1) : SubSeq(s, i, i + Len(pat) - 1) = pat}

\* String.prototype.indexOf, 1-based; 0 when pat does not occur
IndexOf(s, pat) ==
    IF Occurrences(s, pat) = {} THEN 0
    ELSE CHOOSE i \in Occurrences(s, pat) : \A j \in Occurrences(s, pat) : i <= j

\* s.replace(pat, rep) with a string pattern: the FIRST occurrence only, wherever it is
ReplaceFirst(s, pat, rep) ==
    LET i == IndexOf(s, pat) IN
    IF i = 0 THEN s
    ELSE SubSeq(s, 1, i - 1) \o rep \o SubSeq(s, i + Len(pat), Len(s))

HTTP == <<"h", "t", "t", "p">>
WWW == <<"w", "w", "w", ".">>
SchemeSep == <<":", "/", "/">>

\* new URL(url).hostname for the URLs of the model: scheme "://" host [ "/" path ].
\* The result is <<>> when the constructor throws: no "://", an empty scheme or an
\* empty host.
Hostname(url) ==
    LET i == IndexOf(url, SchemeSep) IN
    IF i <= 1 THEN <<>>
    ELSE LET rest == SubSeq(url, i + 3, Len(url))
             j == IndexOf(rest, <<"/">>)
         IN  IF j = 0 THEN rest ELSE SubSeq(rest, 1, j - 1)

\* main.ts:13-20
getDomainFromUrl(url) ==
    IF Hostname(url) = <<>> THEN url
    ELSE ReplaceFirst(Hostname(url), WWW, <<>>)

\* the URLs tabs show in the tracker specifications
UrlWww == HTTP \o <<"s">> \o SchemeSep \o WWW \o <<"a", ".", "c", "/">>
UrlInternal == <<"c", "h", "r", "o", "m", "e">> \o SchemeSep \o <<"n", "/">>
\* tab.url is undefined (no "tabs" permission for the tab)
NoUrl == <<>>
WebUrls == {UrlWww}
Urls == WebUrls \cup {UrlInternal}

\* main.ts:53, 72  tab.url && tab.url.startsWith('http')
IsWeb(url) == url # NoUrl /\ StartsWith(url, HTTP)

-----------------------------------------------------------------------------
(* The tracker's state *)

\* main.ts:3-7, 54-58, 78-82
TabState(url) == [startTime |-> now, url |-> url, domain |-> getDomainFromUrl(url)]

HasState(t) == t \in DOMAIN tabStates

\* delete tabStates[tabId]
Delete(ts, t) == [k \in (DOMAIN ts) \ {t} |-> ts[k]]

\* tabStates[tabId] = state
Put(ts, t, state) == [k \in (DOMAIN ts) \cup {t} |-> IF k = t THEN state ELSE ts[k]]

\* main.ts:25-35: the record saveCurrentTabTime submits for tab t now.  The field tab
\* is not stored by the program: it names the session the record is of.
VisitFrom(ts, t) ==
    [url |-> ts[t].url, domain |-> ts[t].domain,
     startTime |-> ts[t].startTime, endTime |-> now,
     duration |-> now - ts[t].startTime, tab |-> t]

\* the threshold taken as "at least 1000 ms"
SubmitsFromThreshold(ts, t) == t \in DOMAIN ts /\ now - ts[t].startTime >= MinDuration

\* main.ts:24, 28: saveCurrentTabTime(t) reaches await addVisit(...)
Submits(ts, t) == t \in DOMAIN ts /\ now - ts[t].startTime > MinDuration

NoVisit == [url |-> <<>>, domain |-> <<>>, startTime |-> 0, endTime |-> 0,
            duration |-> 0, tab |-> Null]

\* A suspended handler.  kind: the handler; pc: the await it is suspended at ("save":
\* addVisit inside saveCurrentTabTime, "get": chrome.tabs.get); tabId: the event's tab;
\* closing, visit: saveCurrentTabTime's tabId and the record it submitted; url, active:
\* onTabUpdated's tab.url and tab.active; keys: cleanup's keys still to visit
\* (inLoop: whether Object.keys was taken); open0, now0: the sessions that were open and
\* the clock when cleanup started (not program state: what a flush is measured against).
Proc(kind, pc, tabId, closing, visit, url, active, keys, inLoop, open0, now0) ==
    [kind |-> kind, pc |-> pc, tabId |-> tabId, closing |-> closing, visit |-> visit,
     url |-> url, active |-> active, keys |-> keys, inLoop |-> inLoop, open0 |-> open0,
     now0 |-> now0]

SaveProc(kind, tabId, closing, url, active) ==
    Proc(kind, "save", tabId, closing, VisitFrom(tabStates, closing), url, active,
         <<>>, FALSE, {}, 0)

GetProc(tabId) ==
    Proc("activated", "get", tabId, Null, NoVisit, NoUrl, FALSE, <<>>, FALSE, {}, 0)

RemoveAt(s, i) == SubSeq(s, 1, i - 1) \o SubSeq(s, i + 1, Len(s))

CanSuspend == Len(procs) < MaxInFlight

\* the sessions of ts, each named by its tab and start time
Sessions(ts) == {[tab |-> t, startTime |-> ts[t].startTime] : t \in DOMAIN ts}

RECURSIVE SortedSeq(_)
SortedSeq(S) ==
    IF S = {} THEN <<>>
    ELSE LET m == CHOOSE x \in S : \A y \in S : x <= y
         IN  <<m>> \o SortedSeq(S \ {m})

\* Object.keys(tabStates): integer keys, in ascending order
Keys(ts) == SortedSeq(DOMAIN ts)

\* main.ts:121-123 up to the first saveCurrentTabTime that awaits addVisit: the keys
\* before it are closed without a record.  keys = <<>>: the loop has ended; otherwise
\* the loop is suspended in saveCurrentTabTime(Head(keys)).
RECURSIVE CleanupLoop(_, _)
CleanupLoop(ts, keys) ==
    IF keys = <<>> THEN [ts |-> ts, keys |-> <<>>]
    ELSE IF Submits(ts, Head(keys)) THEN [ts |-> ts, keys |-> keys]
    ELSE CleanupLoop(Delete(ts, Head(keys)), Tail(keys))

CleanupProc(ts, keys, open0, now0) ==
    Proc("cleanup", "save", Null, Head(keys), VisitFrom(ts, Head(keys)), NoUrl, FALSE,
         Tail(keys), TRUE, open0, now0)

Init ==
    /\ tabStates = <<>>
    /\ activeTabId = Null
    /\ isActive = TRUE
    /\ visits = <<>>
    /\ now = 0
    /\ procs = <<>>
    /\ lastActivated = Null
    /\ removedTabs = {}
    /\ arg = <<>>
    /\ ret = <<>>

Tick ==
    /\ now + TickMs <= MaxTime
    /\ now' = now + TickMs
    /\ UNCHANGED <<tabStates, activeTabId, isActive, visits, procs, hostVars>>

-----------------------------------------------------------------------------
(* The handlers, up to their first await of asynchronous work *)

\* onTabActivated without `if (!isActive) return`
OnTabActivatedUnguarded(t) ==
    /\ CanSuspend
    /\ IF activeTabId # Null /\ activeTabId # t /\ Submits(tabStates, activeTabId)
       THEN /\ procs' = Append(procs, SaveProc("activated", t, activeTabId, NoUrl, FALSE))
            /\ UNCHANGED <<tabStates, activeTabId>>
       ELSE /\ tabStates' = IF activeTabId # Null /\ activeTabId # t
                            THEN Delete(tabStates, activeTabId)
                            ELSE tabStates
            /\ activeTabId' = t
            /\ procs' = Append(procs, GetProc(t))
    /\ UNCHANGED <<isActive, visits, now>>

\* main.ts:42-63 onTabActivated, to the await of addVisit (line 46 into 29) or of
\* chrome.tabs.get (line 52)
OnTabActivated(t) ==
    \/ /\ ~isActive
       /\ UNCHANGED <<tabStates, activeTabId, isActive, visits, now, procs>>
    \/ /\ isActive
       /\ CanSuspend
       /\ IF activeTabId # Null /\ activeTabId # t /\ Submits(tabStates, activeTabId)
          THEN /\ procs' = Append(procs, SaveProc("activated", t, activeTabId, NoUrl, FALSE))
               /\ UNCHANGED <<tabStates, activeTabId>>
          ELSE /\ tabStates' = IF activeTabId # Null /\ activeTabId # t
                               THEN Delete(tabStates, activeTabId)
                               ELSE tabStates
               /\ activeTabId' = t
               /\ procs' = Append(procs, GetProc(t))
       /\ UNCHANGED <<isActive, visits, now>>

\* main.ts:65-86 onTabUpdated(tabId, changeInfo, tab): changed is changeInfo.url being
\* set, url is tab.url, active is tab.active
OnTabUpdated(t, changed, url, active) ==
    \/ /\ ~isActive
       /\ UNCHANGED <<tabStates, activeTabId, isActive, visits, now, procs>>
    \/ /\ isActive
       /\ ~(changed /\ IsWeb(url))
       /\ UNCHANGED <<tabStates, activeTabId, isActive, visits, now, procs>>
    \/ /\ isActive
       /\ changed /\ IsWeb(url)
       /\ IF Submits(tabStates, t)
          THEN /\ CanSuspend
               /\ procs' = Append(procs, SaveProc("updated", t, t, url, active))
               /\ UNCHANGED <<tabStates, activeTabId>>
          ELSE /\ tabStates' = IF active THEN Put(Delete(tabStates, t), t, TabState(url))
                                         ELSE Delete(tabStates, t)
               /\ activeTabId' = IF active THEN t ELSE activeTabId
               /\ UNCHANGED procs
       /\ UNCHANGED <<isActive, visits, now>>

\* the focus coming back resumes the clock: a session is opened for the active tab
OnWindowFocusChangedResumes(w) ==
    /\ isActive' = (w # WINDOW_ID_NONE)
    /\ IF w = WINDOW_ID_NONE /\ activeTabId # Null
       THEN IF Submits(tabStates, activeTabId)
            THEN /\ CanSuspend
                 /\ procs' = Append(procs, SaveProc("focus", Null, activeTabId, NoUrl, FALSE))
                 /\ UNCHANGED tabStates
            ELSE /\ tabStates' = Delete(tabStates, activeTabId)
                 /\ UNCHANGED procs
       ELSE /\ tabStates' = IF w # WINDOW_ID_NONE /\ ~isActive /\ activeTabId # Null
                            THEN Put(tabStates, activeTabId, TabState(UrlWww))
                            ELSE tabStates
            /\ UNCHANGED procs
    /\ UNCHANGED <<activeTabId, visits, now>>

\* the loss of focus taken for the loss of the tab: activeTabId is cleared as well
OnWindowFocusChangedClearsTab(w) ==
    /\ isActive' = (w # WINDOW_ID_NONE)
    /\ IF w = WINDOW_ID_NONE /\ activeTabId # Null
       THEN IF Submits(tabStates, activeTabId)
            THEN /\ CanSuspend
                 /\ procs' = Append(procs, SaveProc("focus", Null, activeTabId, NoUrl, FALSE))
                 /\ UNCHANGED tabStates
            ELSE /\ tabStates' = Delete(tabStates, activeTabId)
                 /\ UNCHANGED procs
       ELSE UNCHANGED <<tabStates, procs>>
    /\ activeTabId' = IF w = WINDOW_ID_NONE THEN Null ELSE activeTabId
    /\ UNCHANGED <<visits, now>>

\* main.ts:88-94 onWindowFocusChanged
OnWindowFocusChanged(w) ==
    /\ isActive' = (w # WINDOW_ID_NONE)
    /\ IF w = WINDOW_ID_NONE /\ activeTabId # Null
       THEN IF Submits(tabStates, activeTabId)
            THEN /\ CanSuspend
                 /\ procs' = Append(procs, SaveProc("focus", Null, activeTabId, NoUrl, FALSE))
                 /\ UNCHANGED tabStates
            ELSE /\ tabStates' = Delete(tabStates, activeTabId)
                 /\ UNCHANGED procs
       ELSE UNCHANGED <<tabStates, procs>>
    /\ UNCHANGED <<activeTabId, visits, now>>

\* activeTabId cleared whichever tab is removed
OnTabRemovedAlwaysClears(t) ==
    /\ IF Submits(tabStates, t)
       THEN /\ CanSuspend
            /\ procs' = Append(procs, SaveProc("removed", t, t, NoUrl, FALSE))
            /\ UNCHANGED <<tabStates, activeTabId>>
       ELSE /\ tabStates' = Delete(tabStates, t)
            /\ activeTabId' = Null
            /\ UNCHANGED procs
    /\ UNCHANGED <<isActive, visits, now>>

\* main.ts:96-101 onTabRemoved
OnTabRemoved(t) ==
    /\ IF Submits(tabStates, t)
       THEN /\ CanSuspend
            /\ procs' = Append(procs, SaveProc("removed", t, t, NoUrl, FALSE))
            /\ UNCHANGED <<tabStates, activeTabId>>
       ELSE /\ tabStates' = Delete(tabStates, t)
            /\ activeTabId' = IF activeTabId = t THEN Null ELSE activeTabId
            /\ UNCHANGED procs
    /\ UNCHANGED <<isActive, visits, now>>

\* main.ts:116-128 runtime.onSuspend: cleanup(), to its first await of addVisit
OnSuspend ==
    /\ IF activeTabId # Null /\ Submits(tabStates, activeTabId)
       THEN /\ CanSuspend
            /\ procs' = Append(procs,
                   Proc("cleanup", "save", Null, activeTabId,
                        VisitFrom(tabStates, activeTabId), NoUrl, FALSE, <<>>, FALSE,
                        Sessions(tabStates), now))
            /\ UNCHANGED tabStates
       ELSE LET ts1 == IF activeTabId # Null THEN Delete(tabStates, activeTabId)
                       ELSE tabStates
                loop == CleanupLoop(ts1, Keys(ts1))
            IN  /\ tabStates' = loop.ts
                /\ IF loop.keys = <<>> THEN UNCHANGED procs
                   ELSE /\ CanSuspend
                        /\ procs' = Append(procs,
                               CleanupProc(loop.ts, loop.keys, Sessions(tabStates), now))
    /\ UNCHANGED <<activeTabId, isActive, visits, now>>

-----------------------------------------------------------------------------
(* The resumption of a suspended handler *)

\* database.ts:25-27 addVisit: db.visits.add(visit) appends the record
AddVisit(visit) == Append(visits, visit)

\* main.ts:29-38: addVisit has resolved in the handler procs[i]; saveCurrentTabTime
\* deletes the entry and returns, and the handler goes on after its await
SaveDone(i) ==
    LET p == procs[i]
        ts1 == Delete(tabStates, p.closing)
    IN
    /\ p.pc = "save"
    /\ visits' = AddVisit(p.visit)
    /\ CASE p.kind = "activated" ->
              \* main.ts:49, 52
              /\ tabStates' = ts1
              /\ activeTabId' = p.tabId
              /\ procs' = [procs EXCEPT ![i] = GetProc(p.tabId)]
         [] p.kind = "updated" ->
              \* main.ts:77-84
              /\ tabStates' = IF p.active THEN Put(ts1, p.tabId, TabState(p.url)) ELSE ts1
              /\ activeTabId' = IF p.active THEN p.tabId ELSE activeTabId
              /\ procs' = RemoveAt(procs, i)
         [] p.kind = "focus" ->
              /\ tabStates' = ts1
              /\ procs' = RemoveAt(procs, i)
              /\ UNCHANGED activeTabId
         [] p.kind = "removed" ->
              \* main.ts:98-100
              /\ tabStates' = ts1
              /\ activeTabId' = IF activeTabId = p.tabId THEN Null ELSE activeTabId
              /\ procs' = RemoveAt(procs, i)
         [] p.kind = "cleanup" ->
              \* main.ts:121-123
              LET loop == CleanupLoop(ts1, IF p.inLoop THEN p.keys ELSE Keys(ts1))
              IN  /\ tabStates' = loop.ts
                  /\ procs' = IF loop.keys = <<>> THEN RemoveAt(procs, i)
                              ELSE [procs EXCEPT ![i] =
                                       CleanupProc(loop.ts, loop.keys, p.open0, p.now0)]
                  /\ UNCHANGED activeTabId
    /\ UNCHANGED <<isActive, now>>

\* main.ts:52-59: chrome.tabs.get has resolved with a tab whose url is url
GetDone(i, url) ==
    /\ procs[i].pc = "get"
    /\ tabStates' = IF IsWeb(url) THEN Put(tabStates, procs[i].tabId, TabState(url))
                    ELSE tabStates
    /\ procs' = RemoveAt(procs, i)
    /\ UNCHANGED <<activeTabId, isActive, visits, now>>

\* the entry written before the lookup is awaited, its URL to be filled in: a lookup
\* that rejects leaves it behind
GetFailedOpens(i) ==
    /\ procs[i].pc = "get"
    /\ tabStates' = Put(tabStates, procs[i].tabId, TabState(NoUrl))
    /\ procs' = RemoveAt(procs, i)
    /\ UNCHANGED <<activeTabId, isActive, visits, now>>

\* main.ts:60-62: chrome.tabs.get has rejected
GetFailed(i) ==
    /\ procs[i].pc = "get"
    /\ procs' = RemoveAt(procs, i)
    /\ UNCHANGED <<tabStates, activeTabId, isActive, visits, now>>

-----------------------------------------------------------------------------
(* The tracker, driven by every event the host can deliver *)

\* tabs.onActivated fires when the active tab changes: never twice in a row for a tab
TabActivated ==
    \E t \in Tabs \ (removedTabs \cup {lastActivated}) :
        OnTabActivated(t) /\ lastActivated' = t /\ UNCHANGED <<removedTabs, arg, ret>>

\* tabs.onUpdated: changeInfo.url is set when the event reports a navigation, and is
\* then tab.url.  tab.active says that the tab is the active one of ITS window: with
\* two windows open, tabs of both are active, whichever tab the tracker follows.
TabUpdated ==
    \E t \in Tabs \ removedTabs, changed \in BOOLEAN, url \in Urls, active \in BOOLEAN :
        OnTabUpdated(t, changed, url, active) /\ UNCHANGED hostVars

WindowFocusChanged ==
    \E w \in WindowIds : OnWindowFocusChanged(w) /\ UNCHANGED hostVars

TabRemoved ==
    \E t \in Tabs \ removedTabs :
        /\ OnTabRemoved(t)
        /\ removedTabs' = removedTabs \cup {t}
        /\ UNCHANGED <<lastActivated, arg, ret>>

Suspend == OnSuspend /\ UNCHANGED hostVars

StoreWritten == \E i \in 1..Len(procs) : SaveDone(i) /\ UNCHANGED hostVars

LookupDone ==
    \E i \in 1..Len(procs), url \in Urls \cup {NoUrl} :
        GetDone(i, url) /\ UNCHANGED hostVars

LookupFailed == \E i \in 1..Len(procs) : GetFailed(i) /\ UNCHANGED hostVars

Next ==
    \/ Tick
    \/ TabActivated
    \/ TabUpdated
    \/ WindowFocusChanged
    \/ TabRemoved
    \/ Suspend
    \/ StoreWritten
    \/ LookupDone
    \/ LookupFailed

Spec == Init /\ [][Next]_vars

\* handlers run one after the other: the host delivers an event only when no handler
\* is suspended
Idle == procs = <<>>

NextSerial ==
    \/ Tick
    \/ Idle /\ TabActivated
    \/ Idle /\ TabUpdated
    \/ Idle /\ WindowFocusChanged
    \/ Idle /\ TabRemoved
    \/ Idle /\ Suspend
    \/ StoreWritten
    \/ LookupDone
    \/ LookupFailed

SpecSerial == Init /\ [][NextSerial]_vars

-----------------------------------------------------------------------------
(* Vocabulary of the claims *)

\* the records the store holds of the session of tab t that started at start
RecordsOf(vs, t, start) == {i \in 1..Len(vs) : vs[i].tab = t /\ vs[i].startTime = start}

\* the duration the session of tab t has now
Duration(t) == now - tabStates[t].startTime

\* this step ends the session of tab t: its entry goes, or gives way to a later one
SessionEnds(t) ==
    /\ t \in DOMAIN tabStates
    /\ t \in DOMAIN tabStates' => tabStates'[t].startTime # tabStates[t].startTime

\* this step is the delivery of an event whose handler calls saveCurrentTabTime(t)
\* before it awaits anything
ClosesAtDelivery(t) ==
    \/ \E x \in Tabs \ {t} : isActive /\ activeTabId = t /\ OnTabActivated(x)
    \/ \E url \in WebUrls, a \in BOOLEAN : isActive /\ OnTabUpdated(t, TRUE, url, a)
    \/ activeTabId = t /\ OnWindowFocusChanged(WINDOW_ID_NONE)
    \/ OnTabRemoved(t)
    \/ OnSuspend /\ (activeTabId = t \/ procs' = procs)

\* the handler of kind k suspended as procs[i] resumes in this step
Resumes(i, k) == i \in 1..Len(procs) /\ procs[i].kind = k /\ SaveDone(i)

\* this step suspends a handler of kind k in saveCurrentTabTime(t), the record of t's
\* session submitted
SubmitsNow(k, t) ==
    /\ Len(procs') = Len(procs) + 1
    /\ LET p == procs'[Len(procs')]
       IN  /\ p.kind = k /\ p.pc = "save" /\ p.closing = t
           /\ p.visit.tab = t
           /\ p.visit.startTime = tabStates[t].startTime
           /\ p.visit.endTime = now

-----------------------------------------------------------------------------
(* C1 *)

C1_NeverTwo ==
    \A i, j \in 1..Len(visits) :
        (visits[i].tab = visits[j].tab /\ visits[i].startTime = visits[j].startTime) => i = j

C1_NeverZero ==
    \A t \in Tabs :
        (SessionEnds(t) /\ Duration(t) > MinDuration /\ ~LookupDone)
            => Cardinality(RecordsOf(visits', t, tabStates[t].startTime)) = 1

\* C1: exactly-once persistence.  No session has two records in the store, and a step
\* in which a handler closes a session that has lasted more than 1000 ms leaves exactly
\* one record of it, whatever the events and however the handlers interleave.
C1_ExactlyOnce == [][C1_NeverZero]_vars /\ []C1_NeverTwo

-----------------------------------------------------------------------------
(* C2 *)

C2_RecordsValid ==
    \A i \in 1..Len(visits) :
        /\ visits[i].duration = visits[i].endTime - visits[i].startTime
        /\ visits[i].duration > MinDuration

C2_ShortClose ==
    \A t \in Tabs :
        (t \in DOMAIN tabStates /\ Duration(t) <= MinDuration /\ ClosesAtDelivery(t))
            => /\ visits' = visits
               /\ ~ \E k \in {"activated", "updated", "focus", "removed", "cleanup"} :
                        SubmitsNow(k, t)
               /\ t \in DOMAIN tabStates' => tabStates'[t].startTime = now

\* C2: every record of the store has duration = endTime - startTime and duration >
\* 1000; and when a handler closes a session that has lasted 1000 ms or less, no record
\* is written or submitted for it and its entry is removed from tabStates (the tab
\* holds no entry afterwards, or the one the same handler opened at this instant).
C2_OnlyLongVisitsRecorded == []C2_RecordsValid /\ [][C2_ShortClose]_vars

\* a cleanup is suspended that has closed, without a record, a session of exactly 1000 ms
C2_Witness ==
    \E i \in 1..Len(procs) :
        /\ procs[i].kind = "cleanup"
        /\ \E s \in procs[i].open0 :
              /\ s.tab \notin DOMAIN tabStates
              /\ now - s.startTime = MinDuration
              /\ RecordsOf(visits, s.tab, s.startTime) = {}
        /\ visits # <<>>

-----------------------------------------------------------------------------
(* C3 *)

\* C3: the intervals of two distinct records of the store share no stretch of time.
C3_NoOverlap ==
    \A i, j \in 1..Len(visits) :
        i # j => \/ visits[i].endTime <= visits[j].startTime
                 \/ visits[j].endTime <= visits[i].startTime

-----------------------------------------------------------------------------
(* C5 *)

\* C5 (under SpecSerial, handlers one after the other): when no handler is suspended,
\* at most one session is open, it is the session of activeTabId, and the window has
\* focus.
C5_Attribution ==
    Idle => /\ Cardinality(DOMAIN tabStates) <= 1
            /\ \A t \in DOMAIN tabStates : t = activeTabId /\ isActive

-----------------------------------------------------------------------------
(* C6 *)

C6_Delivered ==
    OnWindowFocusChanged(WINDOW_ID_NONE)
        => /\ isActive' = FALSE
           /\ activeTabId' = activeTabId
           /\ (activeTabId # Null /\ HasState(activeTabId))
                 => IF Duration(activeTabId) > MinDuration
                    THEN SubmitsNow("focus", activeTabId)
                    ELSE activeTabId \notin DOMAIN tabStates' /\ visits' = visits

C6_Resumed ==
    \A i \in 1..Len(procs) :
        Resumes(i, "focus")
            => /\ procs[i].closing \notin DOMAIN tabStates'
               /\ RecordsOf(visits', procs[i].closing, procs[i].visit.startTime)
                      # RecordsOf(visits, procs[i].closing, procs[i].visit.startTime)
               /\ activeTabId' = activeTabId
               /\ isActive' = isActive
               /\ Len(procs') = Len(procs) - 1

\* C6: window-focus-changed(none) sets isActive to FALSE and leaves activeTabId as it
\* is; the session of activeTabId, if it has lasted more than 1000 ms, is submitted to
\* the store, and when the handler ends the tab has no entry in tabStates.
C6_FocusLossStopsClock == [][C6_Delivered /\ C6_Resumed]_vars

\* the handler has ended: unfocused, the active tab kept, its session gone and recorded
C6_Witness ==
    /\ ~isActive
    /\ Idle
    /\ activeTabId # Null
    /\ activeTabId \notin removedTabs
    /\ activeTabId \notin DOMAIN tabStates
    /\ \E i \in 1..Len(visits) : visits[i].tab = activeTabId /\ visits[i].endTime = now

-----------------------------------------------------------------------------
(* C7 *)

C7_Post(t) ==
    /\ t \notin DOMAIN tabStates'
    /\ activeTabId' = IF activeTabId = t THEN Null ELSE activeTabId

C7_Step(t) ==
    /\ OnTabRemoved(t)
          => IF HasState(t) /\ Duration(t) > MinDuration
             THEN SubmitsNow("removed", t)
             ELSE C7_Post(t)
    /\ \A i \in 1..Len(procs) :
           (Resumes(i, "removed") /\ procs[i].tabId = t) => C7_Post(t)

\* C7: tab-removed(t) closes the session of t whether or not the window has focus and
\* whether or not t is the active tab: when the handler ends t has no entry in
\* tabStates, and activeTabId is Null if it was t and is unchanged otherwise.
C7_TabRemovedCloses == [][\A t \in Tabs : C7_Step(t)]_vars

\* unfocused, the handler of tab-removed is closing the session of a tab that is not
\* the active one
C7_Witness ==
    \E i \in 1..Len(procs) :
        /\ procs[i].kind = "removed"
        /\ ~isActive
        /\ activeTabId # Null
        /\ activeTabId # procs[i].tabId

-----------------------------------------------------------------------------
(* C8 *)

\* of the sessions open0 that were open when cleanup started at now0: none has two
\* records, and each that had lasted more than 1000 ms is closed and has exactly one
C8_Flushed(open0, now0) ==
    \A s \in open0 :
        /\ Cardinality(RecordsOf(visits', s.tab, s.startTime)) <= 1
        /\ now0 - s.startTime > MinDuration
              => /\ s \notin Sessions(tabStates')
                 /\ Cardinality(RecordsOf(visits', s.tab, s.startTime)) = 1

\* C8: when cleanup has run to completion, every session that was open when it started
\* is closed, and each of them that had lasted more than 1000 ms has been submitted to
\* the store exactly once.
C8_SuspendFlush ==
    [][/\ (OnSuspend /\ procs' = procs) => C8_Flushed(Sessions(tabStates), now)
       /\ \A i \in 1..Len(procs) :
              (Resumes(i, "cleanup") /\ Len(procs') < Len(procs))
                  => C8_Flushed(procs[i].open0, procs[i].now0)]_vars

-----------------------------------------------------------------------------
(* The tracker under tab activations alone: every tab shows a web page, every lookup
   succeeds, the window keeps the focus.  The clock starts at the first activation. *)

ActTabActivated ==
    \E t \in ActTabs \ {lastActivated} :
        OnTabActivated(t) /\ lastActivated' = t /\ UNCHANGED <<removedTabs, arg, ret>>

ActLookupDone ==
    \E i \in 1..Len(procs), url \in WebUrls : GetDone(i, url) /\ UNCHANGED hostVars

ActTick == lastActivated # Null /\ Tick

NextActivate ==
    \/ ActTick
    \/ ActTabActivated
    \/ StoreWritten
    \/ ActLookupDone

SpecActivate == Init /\ [][NextActivate]_vars

-----------------------------------------------------------------------------
(* C4 *)

RECURSIVE SumDurations(_)
SumDurations(vs) == IF vs = <<>> THEN 0 ELSE Head(vs).duration + SumDurations(Tail(vs))

RECURSIVE OpenDurations(_, _)
OpenDurations(ts, S) ==
    IF S = {} THEN 0
    ELSE LET t == CHOOSE x \in S : TRUE
         IN  (now - ts[t].startTime) + OpenDurations(ts, S \ {t})

\* the time the first activation lies back (SpecActivate starts its clock there)
Elapsed == now

\* C4 (under SpecActivate): time conservation.  The durations of the recorded visits
\* plus the duration of what is still open equal the time elapsed since the first
\* activation.  The claim's equality leaves no room for the time a handler awaits its
\* lookup, nor for sessions of 1000 ms or less (C2), so it is stated here as the half
\* that admits both: the time accounted for never exceeds the time elapsed.
C4_TimeConserved ==
    SumDurations(visits) + OpenDurations(tabStates, DOMAIN tabStates) <= Elapsed

-----------------------------------------------------------------------------
(* getDomainFromUrl as a function of its input *)

\* URLs are drawn over this alphabet
HostChars == {"w", ".", "a"}
\* the longest host drawn
MaxHostLen == 7

RECURSIVE SeqsUpTo(_, _)
SeqsUpTo(S, n) ==
    IF n = 0 THEN {<<>>}
    ELSE LET shorter == SeqsUpTo(S, n - 1)
         IN  shorter \cup {Append(q, c) : q \in {r \in shorter : Len(r) = n - 1}, c \in S}

ExampleCom == <<"e", "x", "a", "m", "p", "l", "e", ".", "c", "o", "m">>
HostWwwExample == WWW \o ExampleCom
HostSubWwwExample == <<"s", "u", "b", ".">> \o WWW \o ExampleCom

\* a host name: labels that are not empty, with single dots between them
WellFormedHost(h) ==
    /\ h # <<>>
    /\ h[1] # "." /\ h[Len(h)] # "."
    /\ \A i \in 1..(Len(h) - 1) : ~(h[i] = "." /\ h[i + 1] = ".")

DrawnHosts ==
    {h \in SeqsUpTo(HostChars, MaxHostLen) : WellFormedHost(h)}
        \cup {HostWwwExample, HostSubWwwExample}

HttpsUrl(host) == HTTP \o <<"s">> \o SchemeSep \o host \o <<"/", "p">>

\* https URLs of the drawn hosts, and the bare hosts, which new URL() rejects
DrawnUrls == {HttpsUrl(h) : h \in DrawnHosts} \cup DrawnHosts

NotCalled == [called |-> FALSE, value |-> <<>>]
Returned(v) == [called |-> TRUE, value |-> v]

InitDomain ==
    /\ tabStates = <<>>
    /\ activeTabId = Null
    /\ isActive = TRUE
    /\ visits = <<>>
    /\ now = 0
    /\ procs = <<>>
    /\ lastActivated = Null
    /\ removedTabs = {}
    /\ arg \in DrawnUrls
    /\ ret = NotCalled

CallGetDomainFromUrl ==
    /\ ~ret.called
    /\ ret' = Returned(getDomainFromUrl(arg))
    /\ UNCHANGED <<tabStates, activeTabId, isActive, visits, now, procs, lastActivated,
                   removedTabs, arg>>

SpecDomain == InitDomain /\ [][CallGetDomainFromUrl]_vars

-----------------------------------------------------------------------------
(* C9 *)

\* C9: getDomainFromUrl returns the raw string when the URL does not parse; otherwise
\* the host without its first four characters when the host begins with "www.", and
\* the host unchanged when it does not.
C9_PrefixOnly ==
    ret.called =>
        ret.value = IF Hostname(arg) = <<>> THEN arg
                    ELSE IF StartsWith(Hostname(arg), WWW)
                         THEN SubSeq(Hostname(arg), 5, Len(Hostname(arg)))
                         ELSE Hostname(arg)

-----------------------------------------------------------------------------
(* getTodayStats *)

\* a calendar day in milliseconds (local time is taken to be UTC)
DayMs == 24 * 60 * 60 * 1000

\* setMinutes(0, 0, 0) in the place of setHours(0, 0, 0, 0): the start of the hour
StartOfHour(date) == date - (date % (DayMs \div 24))

\* database.ts:30-31  setHours(0, 0, 0, 0)
StartOfDay(date) == date - (date % DayMs)

\* database.ts:33-34  setHours(23, 59, 59, 999)
EndOfDay(date) == StartOfDay(date) + DayMs - 1

\* database.ts:36-39  where('startTime').between(lower, upper): Dexie's between() takes
\* the lower bound in and leaves the upper bound out unless told otherwise
getVisitsByDate(date) ==
    SelectSeq(visits, LAMBDA v : StartOfDay(date) <= v.startTime /\ v.startTime < EndOfDay(date))

\* database.ts:62-68  one visit folded into domainStats.  domainStats is the sequence of
\* its entries in insertion order, which is the order Object.entries lists them in.
IndexOfDomain(stats, d) ==
    IF \E i \in 1..Len(stats) : stats[i].domain = d
    THEN CHOOSE i \in 1..Len(stats) : stats[i].domain = d
    ELSE 0

AddToStats(stats, v) ==
    LET i == IndexOfDomain(stats, v.domain) IN
    IF i # 0 /\ stats[i].duration # 0
    THEN [stats EXCEPT ![i].duration = @ + v.duration]
    ELSE IF i # 0 THEN [stats EXCEPT ![i].duration = v.duration]
    ELSE Append(stats, [domain |-> v.domain, duration |-> v.duration])

RECURSIVE DomainStats(_)
DomainStats(vs) ==
    IF vs = <<>> THEN <<>>
    ELSE AddToStats(DomainStats(SubSeq(vs, 1, Len(vs) - 1)), vs[Len(vs)])

\* the comparator the other way round: a.duration - b.duration
ComesAfterAscending(a, b) == a.duration - b.duration > 0

\* database.ts:72  the comparator (a, b) => b.duration - a.duration puts a before b
\* unless it is positive
ComesAfter(a, b) == b.duration - a.duration > 0

\* Array.prototype.sort is stable: e goes behind every entry it does not have to precede
RECURSIVE InsertSorted(_, _)
InsertSorted(sorted, e) ==
    IF sorted = <<>> THEN <<e>>
    ELSE IF ComesAfter(sorted[Len(sorted)], e)
         THEN Append(InsertSorted(SubSeq(sorted, 1, Len(sorted) - 1), e), sorted[Len(sorted)])
         ELSE Append(sorted, e)

RECURSIVE SortStats(_)
SortStats(stats) ==
    IF stats = <<>> THEN <<>>
    ELSE InsertSorted(SortStats(SubSeq(stats, 1, Len(stats) - 1)), stats[Len(stats)])

\* database.ts:56-73
getTodayStats == SortStats(DomainStats(getVisitsByDate(now)))

\* The store the statistics are drawn over: up to MaxStatVisits records of the domains,
\* durations and start times below, every one of them written before the clock's now
\* (a record is written when its session ends)
MaxStatVisits == 3

Google == <<"g", "o", "o", "g", "l", "e", ".", "c", "o", "m">>
Github == <<"g", "i", "t", "h", "u", "b", ".", "c", "o", "m">>
StatDomains == {Google, Github}
StatDurations == {60000, 120000, 300000}
\* today is the second day of the clock; its noon
StatNow == DayMs + DayMs \div 2
\* the last millisecond of yesterday, the first of today, and later today
StatStarts == {DayMs - 1, DayMs, DayMs + 400000}

StatVisit(d, dur, start) ==
    [url |-> HttpsUrl(d), domain |-> d, startTime |-> start, endTime |-> start + dur,
     duration |-> dur, tab |-> 1]

StatVisits == {StatVisit(d, dur, start) : d \in StatDomains, dur \in StatDurations,
                                          start \in StatStarts}

InitStats ==
    /\ tabStates = <<>>
    /\ activeTabId = Null
    /\ isActive = TRUE
    /\ visits \in SeqsUpTo(StatVisits, MaxStatVisits)
    /\ now = StatNow
    /\ procs = <<>>
    /\ lastActivated = Null
    /\ removedTabs = {}
    /\ arg = <<>>
    /\ ret = NotCalled

CallGetTodayStats ==
    /\ ~ret.called
    /\ ret' = Returned(getTodayStats)
    /\ UNCHANGED <<tabStates, activeTabId, isActive, visits, now, procs, lastActivated,
                   removedTabs, arg>>

SpecStats == InitStats /\ [][CallGetTodayStats]_vars

-----------------------------------------------------------------------------
(* C10 *)

\* the records of the store that started on the calendar day of the clock's now
TodaysVisits ==
    {i \in 1..Len(visits) :
        /\ visits[i].startTime >= StartOfDay(now)
        /\ visits[i].startTime < StartOfDay(now) + DayMs}

RECURSIVE TotalOf(_, _)
TotalOf(S, d) ==
    IF S = {} THEN 0
    ELSE LET i == CHOOSE x \in S : TRUE
         IN  (IF visits[i].domain = d THEN visits[i].duration ELSE 0) + TotalOf(S \ {i}, d)

-----------------------------------------------------------------------------
(* getTodayStats called again and again, at two times of one day, with writes to the
   store in between *)

\* calls of getTodayStats in one behaviour
MaxCalls == 2

\* early today: 00:11:40, when the last of StatVisits has ended
StatEarly == DayMs + 700000

\* what the last call returned, with what it was called on: the store (store), the
\* clock (at), the clock of the call before it (prevAt) and the number of calls so far
NoCallYet == [called |-> FALSE, value |-> <<>>, store |-> <<>>, at |-> 0, prevAt |-> 0,
              calls |-> 0]

InitStatsTwice ==
    /\ tabStates = <<>>
    /\ activeTabId = Null
    /\ isActive = TRUE
    /\ visits \in SeqsUpTo(StatVisits, MaxStatVisits - 1)
    /\ now = StatEarly
    /\ procs = <<>>
    /\ lastActivated = Null
    /\ removedTabs = {}
    /\ arg = <<>>
    /\ ret = NoCallYet

\* database.ts:56-73  a call of getTodayStats: new Date() is the clock's now
StatCall ==
    /\ ret.calls < MaxCalls
    /\ ret' = [called |-> TRUE, value |-> getTodayStats, store |-> visits, at |-> now,
               prevAt |-> ret.at, calls |-> ret.calls + 1]
    /\ UNCHANGED <<tabStates, activeTabId, isActive, visits, now, procs, lastActivated,
                   removedTabs, arg>>

\* the day goes on, from StatEarly to StatNow
StatTick ==
    /\ now = StatEarly
    /\ now' = StatNow
    /\ UNCHANGED <<tabStates, activeTabId, isActive, visits, procs, hostVars>>

\* database.ts:25-27  the tracker writes the record of a session that has ended
StatWrite ==
    /\ Len(visits) < MaxStatVisits
    /\ \E v \in StatVisits : v.endTime <= now /\ visits' = AddVisit(v)
    /\ UNCHANGED <<tabStates, activeTabId, isActive, now, procs, hostVars>>

NextStatsTwice ==
    \/ StatCall
    \/ StatTick
    \/ StatWrite

SpecStatsTwice == InitStatsTwice /\ [][NextStatsTwice]_vars

-----------------------------------------------------------------------------
(* C11 *)

\* the instants a and b lie in the same calendar day
SameDay(a, b) == a \div DayMs = b \div DayMs

\* C11: a call of getTodayStats leaves the store and the tracker's state (tabStates,
\* activeTabId, isActive) as they are, and it returns what the call before it returned
\* when that call was made on the same calendar day and the store has not been written
\* to since, whatever the time of day of either call.
C11_PureRead ==
    [][StatCall =>
          /\ UNCHANGED <<visits, tabStates, activeTabId, isActive>>
          /\ (ret.called /\ ret.store = visits /\ SameDay(ret.at, now))
                 => ret'.value = ret.value]_vars

\* two calls, the first at 00:11:40 and the second at noon, no write in between, have
\* both returned the totals of two domains
C11_Witness ==
    /\ ret.calls = 2
    /\ ret.prevAt = StatEarly
    /\ ret.at = StatNow
    /\ ret.store = visits
    /\ Len(ret.value) = 2

-----------------------------------------------------------------------------
(* The tracker with handlers one after the other, the last tab-updated event on record *)

\* the event tab-updated(t, changeInfo, tab) as the host delivered it
UpdatedEvent(t, changed, url, active) ==
    [tabId |-> t, changed |-> changed, url |-> url, active |-> active]

\* main.ts:104  tabs.onUpdated, the event kept in arg
TabUpdatedLogged ==
    \E t \in Tabs \ removedTabs, changed \in BOOLEAN, url \in Urls, active \in BOOLEAN :
        /\ OnTabUpdated(t, changed, url, active)
        /\ arg' = UpdatedEvent(t, changed, url, active)
        /\ UNCHANGED <<lastActivated, removedTabs, ret>>

NextNavigate ==
    \/ Tick
    \/ Idle /\ TabActivated
    \/ Idle /\ TabUpdatedLogged
    \/ Idle /\ WindowFocusChanged
    \/ Idle /\ TabRemoved
    \/ Idle /\ Suspend
    \/ StoreWritten
    \/ LookupDone
    \/ LookupFailed

SpecNavigate == Init /\ [][NextNavigate]_vars

-----------------------------------------------------------------------------
(* C12 *)

\* this step is the delivery of tab-updated(t) reporting the new URL url
Navigated(t, url, active) ==
    /\ OnTabUpdated(t, TRUE, url, active)
    /\ arg' = UpdatedEvent(t, TRUE, url, active)

C12_Delivered(t, url, active) ==
    Navigated(t, url, active) =>
        IF HasState(t) /\ Duration(t) > MinDuration
        THEN SubmitsNow("updated", t)
        ELSE /\ visits' = visits
             /\ t \in DOMAIN tabStates'
                   => active /\ IsWeb(url) /\ tabStates'[t].startTime = now

C12_Resumed ==
    \A i \in 1..Len(procs) :
        Resumes(i, "updated") =>
            LET t == procs[i].tabId IN
            /\ Cardinality(RecordsOf(visits', t, procs[i].visit.startTime)) = 1
            /\ t \in DOMAIN tabStates'
                  => procs[i].active /\ IsWeb(procs[i].url) /\ tabStates'[t].startTime = now

\* C12 (under SpecNavigate, handlers one after the other): when tab-updated(t) reports
\* a new URL, the session t had is closed, whatever the scheme of the URL, whether or
\* not t is the active tab and whether or not the window has focus: it is submitted to
\* the store if it has lasted more than 1000 ms, and when the handler ends t holds no
\* session but the one the handler opened, which it opens only for an active tab and
\* an HTTP/HTTPS URL.
C12_NavigationCloses ==
    [][/\ \A t \in Tabs, url \in Urls, active \in BOOLEAN : C12_Delivered(t, url, active)
       /\ C12_Resumed]_vars

-----------------------------------------------------------------------------
(* C13 *)

\* this step suspends the handler of tab-activated(t) in chrome.tabs.get(t)
AwaitsLookup(t) ==
    /\ Len(procs') >= 1
    /\ \E i \in 1..Len(procs') :
           procs'[i].kind = "activated" /\ procs'[i].pc = "get" /\ procs'[i].tabId = t

\* the delivery, the window focused: the session of the tab that was active is
\* submitted, or is closed unrecorded and the handler goes on to the lookup
C13_Delivered(t) ==
    (isActive /\ OnTabActivated(t)) =>
        IF activeTabId # Null /\ activeTabId # t /\ Submits(tabStates, activeTabId)
        THEN SubmitsNow("activated", activeTabId)
        ELSE /\ activeTabId' = t
             /\ (activeTabId # Null /\ activeTabId # t) => activeTabId \notin DOMAIN tabStates'
             /\ AwaitsLookup(t)

\* the store write done: the old session is gone and recorded before the lookup starts
C13_Closed ==
    \A i \in 1..Len(procs) :
        Resumes(i, "activated") =>
            /\ activeTabId' = procs[i].tabId
            /\ procs[i].closing \notin DOMAIN tabStates'
            /\ RecordsOf(visits', procs[i].closing, procs[i].visit.startTime) # {}
            /\ AwaitsLookup(procs[i].tabId)

\* the handler ends with the lookup: activeTabId is its tab, and a session starting now
\* is opened for the tab exactly when the lookup succeeded with an HTTP/HTTPS URL
C13_Completed ==
    \A i \in 1..Len(procs) :
        procs[i].pc = "get" =>
            LET t == procs[i].tabId IN
            /\ \A url \in Urls \cup {NoUrl} :
                   GetDone(i, url) =>
                       /\ activeTabId' = t
                       /\ IF IsWeb(url)
                          THEN t \in DOMAIN tabStates' /\ tabStates'[t] = TabState(url)
                          ELSE tabStates' = tabStates
            /\ GetFailed(i) => (activeTabId' = t /\ tabStates' = tabStates)

\* C13: tab-activated(t), the window focused.  If another tab was active, its session
\* is closed before the session of t is created; when the handler ends activeTabId = t,
\* and a session with startTime = now has been opened for t exactly when the lookup
\* succeeded and the tab's URL is HTTP/HTTPS.
C13_TabActivated ==
    [][/\ \A t \in Tabs : C13_Delivered(t)
       /\ C13_Closed
       /\ C13_Completed]_vars

-----------------------------------------------------------------------------
(* C14 *)

\* C14 (under SpecActivate: activations of tabs that show web pages, every lookup
\* succeeds): once the handlers have all completed, activeTabId is the tab activated
\* last and the only open session is that tab's; so it is after tab-activated(A) and
\* tab-activated(B) with B's handler started while A's awaited its lookup: A is not
\* left with an open session.
C14_HostOrder ==
    (Idle /\ lastActivated # Null) =>
        /\ activeTabId = lastActivated
        /\ DOMAIN tabStates = {lastActivated}

-----------------------------------------------------------------------------
(* The tracker with a store whose writes can fail: handlers one after the other *)

\* main.ts:29: addVisit has rejected in the handler procs[i].  saveCurrentTabTime has
\* no try around the await, and neither has any of its callers (the try of
\* onTabActivated starts at line 51, after the call): the rejection leaves
\* saveCurrentTabTime before line 38 and ends the handler where it awaited.
SaveFailed(i) ==
    /\ procs[i].pc = "save"
    /\ procs' = RemoveAt(procs, i)
    /\ UNCHANGED <<tabStates, activeTabId, isActive, visits, now>>

StoreWriteFailed == \E i \in 1..Len(procs) : SaveFailed(i) /\ UNCHANGED hostVars

NextStoreFails ==
    \/ Tick
    \/ Idle /\ TabActivated
    \/ Idle /\ TabUpdated
    \/ Idle /\ WindowFocusChanged
    \/ Idle /\ TabRemoved
    \/ Idle /\ Suspend
    \/ StoreWritten
    \/ StoreWriteFailed
    \/ LookupDone
    \/ LookupFailed

SpecStoreFails == Init /\ [][NextStoreFails]_vars

-----------------------------------------------------------------------------
(* C15 *)

\* what the handler p does after saveCurrentTabTime has returned
C15_Continues(p) ==
    CASE p.kind = "activated" -> activeTabId' = p.tabId /\ AwaitsLookup(p.tabId)
      [] p.kind = "updated" ->
             p.active => /\ activeTabId' = p.tabId
                         /\ p.tabId \in DOMAIN tabStates'
                         /\ tabStates'[p.tabId] = TabState(p.url)
      [] p.kind = "focus" -> activeTabId' = activeTabId
      [] p.kind = "removed" ->
             activeTabId' = IF activeTabId = p.tabId THEN Null ELSE activeTabId
      [] p.kind = "cleanup" ->
             \A t \in DOMAIN tabStates' : Submits(tabStates', t)

\* C15 (under SpecStoreFails): when the store write of a session that is being closed
\* fails, the entry of the tab is removed from tabStates all the same, nothing is
\* written and the write is not tried again, and the handler that closed the session
\* goes on with the rest of its updates.
C15_WriteFailure ==
    [][\A i \in 1..Len(procs) :
          (procs[i].pc = "save" /\ SaveFailed(i)) =>
              /\ procs[i].closing \notin DOMAIN tabStates'
              /\ visits' = visits
              /\ C15_Continues(procs[i])]_vars

-----------------------------------------------------------------------------
(* The tracker under every interleaving, the outcome of the last lookup on record *)

\* chrome.tabs.get(t) has resolved (failed = FALSE) or rejected (failed = TRUE)
LookupEvent(t, failed) == [tabId |-> t, failed |-> failed]

LookupDoneLogged ==
    \E i \in 1..Len(procs), url \in Urls \cup {NoUrl} :
        /\ GetDone(i, url)
        /\ arg' = LookupEvent(procs[i].tabId, FALSE)
        /\ UNCHANGED <<lastActivated, removedTabs, ret>>

LookupFailedLogged ==
    \E i \in 1..Len(procs) :
        /\ GetFailed(i)
        /\ arg' = LookupEvent(procs[i].tabId, TRUE)
        /\ UNCHANGED <<lastActivated, removedTabs, ret>>

NextLookup ==
    \/ Tick
    \/ TabActivated
    \/ TabUpdated
    \/ WindowFocusChanged
    \/ TabRemoved
    \/ Suspend
    \/ StoreWritten
    \/ LookupDoneLogged
    \/ LookupFailedLogged

SpecLookup == Init /\ [][NextLookup]_vars

-----------------------------------------------------------------------------
(* C16 *)

\* C16 (under SpecLookup): when the lookup of tab-activated(t) fails, the handler ends
\* there and raises nothing: no session is opened for t, no entry of tabStates is
\* added, removed or altered, nothing is written to the store, and activeTabId and
\* isActive stay as they are (activeTabId was set to t before the lookup).
C16_LookupFailure ==
    [][\A i \in 1..Len(procs) :
          (procs[i].pc = "get" /\ GetFailed(i) /\ arg' = LookupEvent(procs[i].tabId, TRUE))
              => /\ tabStates' = tabStates
                 /\ visits' = visits
                 /\ activeTabId' = activeTabId
                 /\ isActive' = isActive
                 /\ procs' = RemoveAt(procs, i)]_vars

\* the lookup of the active tab has failed and the handler has ended: the tab has no
\* session, while the session of another tab is as it was
C16_Witness ==
    /\ arg = LookupEvent(activeTabId, TRUE)
    /\ Idle
    /\ isActive
    /\ activeTabId \notin DOMAIN tabStates
    /\ tabStates # <<>>

-----------------------------------------------------------------------------
(* C17 *)

\* C17 (under SpecLookup): a lookup of tab-activated(t) that succeeds when t has been
\* removed meanwhile costs no more than a late start time: once the handlers have all
\* completed, the removed tab t holds no open session.
C17_RemovedTabHoldsNothing ==
    \A t \in removedTabs :
        (Idle /\ arg = LookupEvent(t, FALSE)) => t \notin DOMAIN tabStates

-----------------------------------------------------------------------------
(* C18 *)

\* the handler procs[i] is closing the session of a tab that holds a newer one by now
ClosesStale(i) ==
    /\ procs[i].pc = "save"
    /\ procs[i].kind # "cleanup"
    /\ procs[i].closing \in DOMAIN tabStates
    /\ tabStates[procs[i].closing].startTime > procs[i].visit.startTime

\* C18: a close removes only the session it read when it started.  When the tab has
\* been given a new session while the close awaited its store write, that session is
\* still in tabStates when the close has finished (or a session the same handler opens
\* at this instant is).  Closes by cleanup, which goes on to close every session, are
\* left aside.
C18_NoStaleDelete ==
    [][\A i \in 1..Len(procs) :
          (ClosesStale(i) /\ SaveDone(i)) =>
              /\ procs[i].closing \in DOMAIN tabStates'
              /\ \/ tabStates'[procs[i].closing] = tabStates[procs[i].closing]
                 \/ /\ procs[i].kind = "updated"
                    /\ tabStates'[procs[i].closing].startTime = now]_vars

-----------------------------------------------------------------------------
(* The tracker under every interleaving, the window's focus history on record *)

\* the focus was lost with tab t active (phase "lost") and has come back since (phase
\* "regained"); no tab-activated or tab-updated event for t was delivered after the loss
FocusEvent(phase, t) == [phase |-> phase, tabId |-> t]

\* the record is dropped when an event for its tab is delivered
AfterEventFor(t) == IF arg # <<>> /\ arg.tabId = t THEN <<>> ELSE arg

TabActivatedFocus ==
    \E t \in Tabs \ (removedTabs \cup {lastActivated}) :
        /\ OnTabActivated(t)
        /\ lastActivated' = t
        /\ arg' = AfterEventFor(t)
        /\ UNCHANGED <<removedTabs, ret>>

TabUpdatedFocus ==
    \E t \in Tabs \ removedTabs, changed \in BOOLEAN, url \in Urls, active \in BOOLEAN :
        /\ OnTabUpdated(t, changed, url, active)
        /\ arg' = AfterEventFor(t)
        /\ UNCHANGED <<lastActivated, removedTabs, ret>>

WindowFocusChangedFocus ==
    \E w \in WindowIds :
        /\ OnWindowFocusChanged(w)
        /\ arg' = IF w = WINDOW_ID_NONE
                  THEN (IF activeTabId # Null /\ isActive THEN FocusEvent("lost", activeTabId)
                        ELSE arg)
                  ELSE (IF arg # <<>> /\ ~isActive THEN FocusEvent("regained", arg.tabId)
                        ELSE arg)
        /\ UNCHANGED <<lastActivated, removedTabs, ret>>

NextFocus ==
    \/ Tick
    \/ TabActivatedFocus
    \/ TabUpdatedFocus
    \/ WindowFocusChangedFocus
    \/ TabRemoved
    \/ Suspend
    \/ StoreWritten
    \/ LookupDone
    \/ LookupFailed

SpecFocus == Init /\ [][NextFocus]_vars

\* the same, handlers one after the other
NextFocusSerial ==
    \/ Tick
    \/ Idle /\ TabActivatedFocus
    \/ Idle /\ TabUpdatedFocus
    \/ Idle /\ WindowFocusChangedFocus
    \/ Idle /\ TabRemoved
    \/ Idle /\ Suspend
    \/ StoreWritten
    \/ LookupDone
    \/ LookupFailed

SpecFocusSerial == Init /\ [][NextFocusSerial]_vars

-----------------------------------------------------------------------------
(* C19 *)

\* window-focus-changed(w), w a window: isActive becomes TRUE, nothing else changes
C19_Frame ==
    \A w \in WindowIds \ {WINDOW_ID_NONE} :
        OnWindowFocusChanged(w) =>
            /\ isActive' = TRUE
            /\ UNCHANGED <<tabStates, activeTabId, visits, procs>>

\* this step is the work of a handler of tab-activated(t) or tab-updated(t) that was
\* suspended: the event is processed
Processes(t) ==
    \E i \in 1..Len(procs) :
        /\ procs[i].tabId = t
        /\ procs[i].kind \in {"activated", "updated"}
        /\ SaveDone(i) \/ \E url \in Urls \cup {NoUrl} : GetDone(i, url)

\* since the focus was lost, the tab that was active then is given a session only by
\* the processing of a tab-activated or tab-updated event for it (arg' # arg: such an
\* event is delivered in this step, or the focus changes, which C19_Frame and C6 are
\* about)
C19_OnlyEventsOpen ==
    (/\ arg # <<>> /\ arg' = arg
     /\ arg.tabId \notin DOMAIN tabStates
     /\ arg.tabId \in DOMAIN tabStates') => Processes(arg.tabId)

C19_NotResumed ==
    (arg # <<>> /\ arg.phase = "regained" /\ Idle) => arg.tabId \notin DOMAIN tabStates

-----------------------------------------------------------------------------
(* The tracker under every interleaving, on record the tab of the last tab-activated or
   tab-updated event that was delivered while the window had no focus *)

\* the event for tab t was delivered to a tracker whose isActive was FALSE
UnfocusedEvent(t) == [tabId |-> t]

TabActivatedUnfocused ==
    \E t \in Tabs \ (removedTabs \cup {lastActivated}) :
        /\ OnTabActivated(t)
        /\ lastActivated' = t
        /\ arg' = IF isActive THEN arg ELSE UnfocusedEvent(t)
        /\ UNCHANGED <<removedTabs, ret>>

TabUpdatedUnfocused ==
    \E t \in Tabs \ removedTabs, changed \in BOOLEAN, url \in Urls, active \in BOOLEAN :
        /\ OnTabUpdated(t, changed, url, active)
        /\ arg' = IF isActive THEN arg ELSE UnfocusedEvent(t)
        /\ UNCHANGED <<lastActivated, removedTabs, ret>>

\* the record is dropped when the focus returns
WindowFocusChangedUnfocused ==
    \E w \in WindowIds :
        /\ OnWindowFocusChanged(w)
        /\ arg' = IF w = WINDOW_ID_NONE THEN arg ELSE <<>>
        /\ UNCHANGED <<lastActivated, removedTabs, ret>>

NextUnfocused ==
    \/ Tick
    \/ TabActivatedUnfocused
    \/ TabUpdatedUnfocused
    \/ WindowFocusChangedUnfocused
    \/ TabRemoved
    \/ Suspend
    \/ StoreWritten
    \/ LookupDone
    \/ LookupFailed

SpecUnfocused == Init /\ [][NextUnfocused]_vars

-----------------------------------------------------------------------------
(* C20 *)

\* tab-activated and tab-updated delivered while isActive is FALSE change nothing and
\* suspend no handler
C20_Ignored ==
    /\ \A t \in Tabs :
           (~isActive /\ OnTabActivated(t))
               => UNCHANGED <<tabStates, activeTabId, visits, procs, isActive>>
    /\ \A t \in Tabs, changed \in BOOLEAN, url \in Urls, active \in BOOLEAN :
           (~isActive /\ OnTabUpdated(t, changed, url, active))
               => UNCHANGED <<tabStates, activeTabId, visits, procs, isActive>>

\* tab-removed and suspend delivered while isActive is FALSE close sessions all the same
C20_StillActs ==
    /\ \A t \in Tabs :
           (~isActive /\ OnTabRemoved(t)) =>
               IF Submits(tabStates, t) THEN SubmitsNow("removed", t) ELSE C7_Post(t)
    /\ (~isActive /\ OnSuspend) =>
           IF \E t \in DOMAIN tabStates : Submits(tabStates, t)
           THEN \E t \in DOMAIN tabStates : SubmitsNow("cleanup", t)
           ELSE tabStates' = <<>>

====
